---- MODULE Spec2Model ----
(***************************************************************************)
(* Model of the rattler_archive crate: archive format detection            *)
(* (format.rs), the synchronous extraction engine (extractor.rs) and the   *)
(* tokio bridge (async.rs).  The crate is modelled as built with the       *)
(* "tokio" and "url-detection" features and without "sevenz".              *)
(***************************************************************************)
EXTENDS Integers, Sequences, FiniteSets, TLC

VARIABLES
    filename,   \* format harness: the &str handed to detect_from_filename,
                \* or the url handed to detect_from_url
    detected,   \* format harness: the Option<ArchiveFormat> it returned
    fs0,        \* the file system as it was before the call
    builder,    \* builder harness: the two builders and the last call on them
    reader,     \* ProgressReader harness: the reader and what its calls did
    install,    \* install_package_to_environment: caller, worker, conda-meta
    extractor,  \* Extractor { strip_root_dir, format }
    call,       \* the running call: operation, archive_path, url
    fs,         \* the file system: a set of nodes [path, kind, id]
    archive,    \* what the archive file turned out to hold once it was read
    pc,         \* position of the thread running Extractor::extract
    format,     \* extract: the local `format`
    compression,\* extract_tar: the TarCompression / container it was called with
    temp_dir,   \* extract_tar / extract_zip: TRUE while `temp_dir` is alive
    src_dir,    \* move_extracted_dir: the local `src_dir`
    result,     \* what Extractor::extract returned
    signals,    \* the calls the progress reporter received, in order
    caller,     \* position of the task polling an AsyncExtractor future
    worker,     \* state of the spawn_blocking task
    outcome,    \* what the AsyncExtractor future resolved to
    alive,      \* TRUE until the AsyncExtractor (and its `inner`) is dropped
    dangling    \* TRUE once `inner` was read through the pointer after that

hvars == <<filename, detected, fs0, builder, reader, install>>
evars == <<extractor, call, fs, archive, pc, format, compression, temp_dir,
           src_dir, result, signals>>
avars == <<caller, worker, outcome, alive, dangling>>
vars == <<hvars, evars, avars>>

-----------------------------------------------------------------------------
(* format.rs: ArchiveFormat                                                *)

\* Option::None of Option<ArchiveFormat>
None == "None"

\* a value that has not been computed yet
Unset == "Unset"

\* the variants of enum ArchiveFormat (feature "sevenz" off)
ArchiveFormat == {"Tar", "TarGz", "TarBz2", "TarXz", "TarLzma", "TarZst", "Zip"}

\* the mutant of extensions whose table for Tar lists the bare .gz as well
extensions_Overlapping(self) ==
    CASE self = "Tar"     -> {".tar", ".gz"}
      [] self = "TarGz"   -> {".tar.gz", ".tgz", ".taz"}
      [] self = "TarBz2"  -> {".tar.bz2", ".tbz", ".tbz2", ".tz2"}
      [] self = "TarXz"   -> {".tar.xz", ".txz"}
      [] self = "TarLzma" -> {".tar.lzma", ".tlz"}
      [] self = "TarZst"  -> {".tar.zst", ".tzst"}
      [] self = "Zip"     -> {".zip"}

\* ArchiveFormat::extensions
extensions(self) ==
    CASE self = "Tar"     -> {".tar"}
      [] self = "TarGz"   -> {".tar.gz", ".tgz", ".taz"}
      [] self = "TarBz2"  -> {".tar.bz2", ".tbz", ".tbz2", ".tz2"}
      [] self = "TarXz"   -> {".tar.xz", ".txz"}
      [] self = "TarLzma" -> {".tar.lzma", ".tlz"}
      [] self = "TarZst"  -> {".tar.zst", ".tzst"}
      [] self = "Zip"     -> {".zip"}

\* ArchiveFormat::name
ArchiveFormat_name(self) ==
    CASE self = "Tar"     -> "TAR"
      [] self = "TarGz"   -> "TAR.GZ"
      [] self = "TarBz2"  -> "TAR.BZ2"
      [] self = "TarXz"   -> "TAR.XZ"
      [] self = "TarLzma" -> "TAR.LZMA"
      [] self = "TarZst"  -> "TAR.ZST"
      [] self = "Zip"     -> "ZIP"

\* ArchiveFormat::is_tar_based
is_tar_based(self) ==
    self \in {"Tar", "TarGz", "TarBz2", "TarXz", "TarLzma", "TarZst"}

\* char::to_lowercase on the characters the model's names are written with
LowerChar(c) ==
    CASE c = "A" -> "a" [] c = "B" -> "b" [] c = "D" -> "d" [] c = "F" -> "f"
      [] c = "G" -> "g" [] c = "I" -> "i" [] c = "L" -> "l" [] c = "M" -> "m"
      [] c = "P" -> "p" [] c = "R" -> "r" [] c = "S" -> "s" [] c = "T" -> "t"
      [] c = "X" -> "x" [] c = "Z" -> "z" [] OTHER -> c

\* str::to_lowercase, character by character, from the i-th on
RECURSIVE LowerFrom(_, _)
LowerFrom(s, i) ==
    IF i > Len(s) THEN ""
    ELSE LowerChar(SubSeq(s, i, i)) \o LowerFrom(s, i + 1)

\* str::to_lowercase
to_lowercase(s) == LowerFrom(s, 1)

\* str::ends_with
ends_with(s, suffix) ==
    /\ Len(s) >= Len(suffix)
    /\ SubSeq(s, Len(s) - Len(suffix) + 1, Len(s)) = suffix

\* the mutant of detect_from_filename that forgets to lower-case the name
detect_from_filename_CaseSensitive(name) ==
    IF ends_with(name, ".tar.gz") \/ ends_with(name, ".tgz") \/ ends_with(name, ".taz")
    THEN "TarGz"
    ELSE IF \/ ends_with(name, ".tar.bz2") \/ ends_with(name, ".tbz")
            \/ ends_with(name, ".tbz2") \/ ends_with(name, ".tz2")
    THEN "TarBz2"
    ELSE IF ends_with(name, ".tar.xz") \/ ends_with(name, ".txz") THEN "TarXz"
    ELSE IF ends_with(name, ".tar.lzma") \/ ends_with(name, ".tlz") THEN "TarLzma"
    ELSE IF ends_with(name, ".tar.zst") \/ ends_with(name, ".tzst") THEN "TarZst"
    ELSE IF ends_with(name, ".tar") THEN "Tar"
    ELSE IF ends_with(name, ".zip") THEN "Zip"
    ELSE None

\* ArchiveFormat::detect_from_filename: the chain of suffix tests, in the
\* order of the source, on the lower-cased name
detect_from_filename(name) ==
    LET f == to_lowercase(name) IN
    IF ends_with(f, ".tar.gz") \/ ends_with(f, ".tgz") \/ ends_with(f, ".taz")
    THEN "TarGz"
    ELSE IF \/ ends_with(f, ".tar.bz2") \/ ends_with(f, ".tbz")
            \/ ends_with(f, ".tbz2") \/ ends_with(f, ".tz2")
    THEN "TarBz2"
    ELSE IF ends_with(f, ".tar.xz") \/ ends_with(f, ".txz") THEN "TarXz"
    ELSE IF ends_with(f, ".tar.lzma") \/ ends_with(f, ".tlz") THEN "TarLzma"
    ELSE IF ends_with(f, ".tar.zst") \/ ends_with(f, ".tzst") THEN "TarZst"
    ELSE IF ends_with(f, ".tar") THEN "Tar"
    ELSE IF ends_with(f, ".zip") THEN "Zip"
    ELSE None

-----------------------------------------------------------------------------
(* The filenames the format harness is run on                              *)

\* longest stem put in front of the suffixes of a generated filename
MaxStemLen == 1

StemChars == {"f", "."}

RECURSIVE Stems(_)
Stems(n) ==
    IF n = 0 THEN {""}
    ELSE Stems(n - 1) \cup {s \o c : s \in Stems(n - 1), c \in StemChars}

AllExtensions == UNION {extensions(f) : f \in ArchiveFormat}

\* name endings that are no extension of any format
OtherSuffixes == {"", ".txt", ".gz", ".bz2", "tar", ".tar.", ".ta", ".zipx", ".7z"}

UpperChar(c) ==
    CASE c = "a" -> "A" [] c = "b" -> "B" [] c = "f" -> "F" [] c = "g" -> "G"
      [] c = "i" -> "I" [] c = "l" -> "L" [] c = "m" -> "M" [] c = "p" -> "P"
      [] c = "r" -> "R" [] c = "s" -> "S" [] c = "t" -> "T" [] c = "x" -> "X"
      [] c = "z" -> "Z" [] OTHER -> c

\* s with every letter (upper = TRUE) or every second letter upper-cased
RECURSIVE Cased(_, _, _)
Cased(s, all, up) ==
    IF Len(s) = 0 THEN ""
    ELSE (IF up THEN UpperChar(SubSeq(s, 1, 1)) ELSE SubSeq(s, 1, 1))
         \o Cased(SubSeq(s, 2, Len(s)), all, IF all THEN up ELSE ~up)

Filenames ==
    LET lower == {st \o a \o b : st \in Stems(MaxStemLen),
                                 a \in AllExtensions \cup {""},
                                 b \in AllExtensions \cup OtherSuffixes}
    IN  lower \cup {Cased(s, TRUE, TRUE) : s \in lower}
              \cup {Cased(s, FALSE, TRUE) : s \in lower}

-----------------------------------------------------------------------------
(* std::path::Path as the crate uses it                                    *)

\* the '/'-separated pieces of a path string, empty pieces included
RECURSIVE SplitFrom(_, _, _, _)
SplitFrom(s, i, cur, acc) ==
    IF i > Len(s) THEN Append(acc, cur)
    ELSE IF SubSeq(s, i, i) = "/"
         THEN SplitFrom(s, i + 1, "", Append(acc, cur))
         ELSE SplitFrom(s, i + 1, cur \o SubSeq(s, i, i), acc)

Split(s, cur, acc) == SplitFrom(s, 1, cur, acc)

\* Path::components: empty pieces and every "." but a leading one are dropped
Components(path) ==
    LET raw == Split(path, "", <<>>)
        keep == {i \in 1..Len(raw) : raw[i] # "" /\ (raw[i] # "." \/ i = 1)}
        RECURSIVE Pick(_)
        Pick(i) == IF i > Len(raw) THEN <<>>
                   ELSE IF i \in keep THEN <<raw[i]>> \o Pick(i + 1)
                   ELSE Pick(i + 1)
    IN  Pick(1)

\* Path::file_name: the last component when it is a normal one
file_name(path) ==
    LET comps == Components(path) IN
    IF comps = <<>> THEN None
    ELSE IF comps[Len(comps)] \in {".", ".."} THEN None
    ELSE comps[Len(comps)]

\* ArchiveFormat::detect_from_path: path.file_name().and_then(..) chained
\* into detect_from_filename, the Options as sets of at most one element
detect_from_path(path) ==
    LET detections == {detect_from_filename(name) : name \in {file_name(path)} \ {None}}
    IN  IF detections = {} THEN None ELSE CHOOSE f \in detections : TRUE

-----------------------------------------------------------------------------
(* The file system: nodes [path, kind, id]; a path is a sequence of names, *)
(* id is the archive entry a node was unpacked from (<<>> for the rest)    *)

Dest == <<"parent", "dest">>        \* the `destination` argument
TempRoot == <<"tmp">>               \* std::env::temp_dir()
Scratch == <<"tmp", "scratch">>     \* the directory tempfile::tempdir() makes
ArchiveFile == <<"archive">>        \* the file `archive_path` names

Dir(p) == [path |-> p, kind |-> "dir", id |-> <<>>]
File(p) == [path |-> p, kind |-> "file", id |-> <<>>]

IsPrefix(p, q) == Len(p) <= Len(q) /\ SubSeq(q, 1, Len(p)) = p

Exists(f, p) == \E n \in f : n.path = p
IsDir(f, p) == \E n \in f : n.path = p /\ n.kind = "dir"

\* the immediate entries of directory p (std::fs::read_dir)
read_dir(f, p) == {n \in f : Len(n.path) = Len(p) + 1 /\ IsPrefix(p, n.path)}

\* everything below p, as paths relative to p
Below(f, p) ==
    {[path |-> SubSeq(n.path, Len(p) + 1, Len(n.path)), kind |-> n.kind, id |-> n.id] :
        n \in {m \in f : IsPrefix(p, m.path) /\ m.path # p}}

\* std::fs::create_dir_all: fails when a prefix of p is a non-directory
CanCreateDirAll(f, p) ==
    \A i \in 1..Len(p) : Exists(f, SubSeq(p, 1, i)) => IsDir(f, SubSeq(p, 1, i))

\* the mutant of create_dir_all that makes the last directory alone
create_dir_all_LeafOnly(f, p) == f \cup {Dir(p)}

create_dir_all(f, p) ==
    f \cup {Dir(SubSeq(p, 1, i)) : i \in {j \in 1..Len(p) : ~Exists(f, SubSeq(p, 1, j))}}

\* std::fs::rename of `from` (with all below it) to the free path `to`
rename(f, from, to) ==
    {IF IsPrefix(from, n.path)
     THEN [n EXCEPT !.path = to \o SubSeq(n.path, Len(from) + 1, Len(n.path))]
     ELSE n : n \in f}

\* dropping a TempDir: the directory and all below it is removed
remove_dir_all(f, p) == {n \in f : ~IsPrefix(p, n.path)}

-----------------------------------------------------------------------------
(* The inputs of a call                                                    *)

\* the archive_path arguments
ArchivePaths == {"dl/pkg.tar.gz", "PKG.ZIP", "dl.zip/download"}

\* the names of archive entries
Names == {"pkg", "a.txt"}

\* an archive is a set of entries [path, kind]: top-level files and
\* directories, and files and directories inside the top-level directories
EntryUniverse ==
    {[path |-> <<a>>, kind |-> k] : a \in Names, k \in {"file", "dir"}}
    \cup {[path |-> <<a, b>>, kind |-> "file"] : a \in Names, b \in Names}

WellFormed(t) ==
    /\ \A e1 \in t, e2 \in t : e1.path = e2.path => e1 = e2
    /\ \A e \in t : Len(e.path) = 2 =>
            [path |-> <<e.path[1]>>, kind |-> "dir"] \in t

Archives == {t \in SUBSET EntryUniverse : WellFormed(t)}

\* what an interrupted unpack may have written: a parent-closed part of t
Partials(t) == {w \in SUBSET t : WellFormed(w)}

\* the nodes unpacking the entries t into directory `target` makes
Unpacked(t, target) ==
    {[path |-> target \o e.path, kind |-> e.kind, id |-> e.path] : e \in t}

\* the states of the destination before a call: nothing there, the parent a
\* regular file, the parent alone, an empty destination, a destination
\* holding an older file, a regular file where the destination should be
DestStates ==
    { {},
      {File(<<"parent">>)},
      {Dir(<<"parent">>)},
      {Dir(<<"parent">>), Dir(Dest)},
      {Dir(<<"parent">>), Dir(Dest), File(Dest \o <<"old.txt">>)},
      {Dir(<<"parent">>), File(Dest)} }

\* the Extractor values ExtractorBuilder::build can make
Extractors == [strip_root_dir : BOOLEAN, format : ArchiveFormat \cup {None}]

NoArchive == [read |-> FALSE, encoding |-> None, entries |-> {}]

-----------------------------------------------------------------------------
(* progress.rs: ProgressReader                                             *)

\* the wrapped source holds SourceLen bytes, a read is given a buffer of up
\* to MaxBuf bytes, and MaxCalls calls are made on a reader
SourceLen == 3
MaxBuf == 2
MaxCalls == 5

\* a std::io::Result<usize> or <u64>: Ok(n) or Err(_)
Ok(n) == [ok |-> TRUE, n |-> n]
Err == [ok |-> FALSE, n |-> 0]

\* what inner.read(buf) can yield at position pos for a buffer of n bytes: a
\* count of bytes up to n and up to what is left, 0 at the end and for an
\* empty buffer, or an error
InnerRead(pos, n) ==
    {[ret |-> Ok(k), pos |-> pos + k] :
        k \in {j \in 0..n : pos + j <= SourceLen}}
    \cup {[ret |-> Err, pos |-> pos]}

\* what inner.seek(pos) can yield: the new position, or an error
InnerSeek(pos) ==
    {[ret |-> Ok(p), pos |-> p] : p \in 0..SourceLen} \cup {[ret |-> Err, pos |-> pos]}

\* ProgressReader::new
ProgressReader_new == [inner |-> 0, bytes_read |-> 0]

\* the mutant of read that reports no progress for a read of zero bytes
read_SilentAtEof(self, r) ==
    IF ~r.ret.ok
    THEN [self |-> [self EXCEPT !.inner = r.pos], on_progress |-> <<>>, ret |-> Err]
    ELSE LET bytes_read == self.bytes_read + r.ret.n IN
         [self |-> [self EXCEPT !.inner = r.pos, !.bytes_read = bytes_read],
          on_progress |-> IF r.ret.n = 0 THEN <<>> ELSE <<bytes_read>>,
          ret |-> Ok(r.ret.n)]

\* <ProgressReader as Read>::read, r being what self.inner.read(buf) yields:
\* the reader after the call, the on_progress calls it made and its value
read(self, r) ==
    IF ~r.ret.ok
    THEN [self |-> [self EXCEPT !.inner = r.pos], on_progress |-> <<>>, ret |-> Err]
    ELSE LET bytes_read == self.bytes_read + r.ret.n IN
         [self |-> [self EXCEPT !.inner = r.pos, !.bytes_read = bytes_read],
          on_progress |-> <<bytes_read>>,
          ret |-> Ok(r.ret.n)]

\* <ProgressReader as Seek>::seek, r being what self.inner.seek(pos) yields
seek(self, r) ==
    [self |-> [self EXCEPT !.inner = r.pos], on_progress |-> <<>>, ret |-> r.ret]

\* no ProgressReader has been made
NoReader == [last |-> "none"]

\* install_package_to_environment has not been called
NoInstall == [pc |-> "none"]

-----------------------------------------------------------------------------
(* extractor.rs: ExtractorBuilder; async.rs: AsyncExtractorBuilder         *)

\* the progress reporters a builder is given: the no-op default and two others
Reporters == {"NoProgressReporter", "ReporterA", "ReporterB"}

\* ExtractorBuilder::new
ExtractorBuilder_new ==
    [strip_root_dir |-> TRUE, progress_reporter |-> "NoProgressReporter", format |-> None]

\* ExtractorBuilder::with_strip_root_dir
with_strip_root_dir(self, strip) == [self EXCEPT !.strip_root_dir = strip]

\* the mutant of with_progress_reporter that copies the flag alone into the
\* new builder
with_progress_reporter_DropsFormat(self, reporter) ==
    [strip_root_dir |-> self.strip_root_dir, progress_reporter |-> reporter,
     format |-> None]

\* ExtractorBuilder::with_progress_reporter: a new builder of the reporter's
\* type, made of the two other fields and the reporter
with_progress_reporter(self, reporter) ==
    [strip_root_dir |-> self.strip_root_dir, progress_reporter |-> reporter,
     format |-> self.format]

\* ExtractorBuilder::with_format: Some(format)
with_format(self, fmt) == [self EXCEPT !.format = fmt]

\* ExtractorBuilder::build
build(self) ==
    [strip_root_dir |-> self.strip_root_dir,
     progress_reporter |-> self.progress_reporter,
     format |-> self.format]

\* AsyncExtractorBuilder::new
AsyncExtractorBuilder_new == [inner |-> ExtractorBuilder_new]

\* AsyncExtractorBuilder::with_strip_root_dir
async_with_strip_root_dir(self, strip) ==
    [self EXCEPT !.inner = with_strip_root_dir(self.inner, strip)]

\* AsyncExtractorBuilder::with_progress_reporter
async_with_progress_reporter(self, reporter) ==
    [inner |-> with_progress_reporter(self.inner, reporter)]

\* AsyncExtractorBuilder::with_format
async_with_format(self, fmt) == [self EXCEPT !.inner = with_format(self.inner, fmt)]

\* AsyncExtractorBuilder::build
async_build(self) == [inner |-> build(self.inner)]

\* no builder has been made
NoBuilder == [last |-> "none"]

-----------------------------------------------------------------------------
(* extractor.rs: Extractor::extract, run step by step                      *)

Pending == "Pending"

\* enum TarCompression, and "ZipArchive" for the zip container
Compression(fmt) ==
    CASE fmt = "Tar"     -> "Plain"
      [] fmt = "TarGz"   -> "Gzip"
      [] fmt = "TarBz2"  -> "Bzip2"
      [] fmt = "TarXz"   -> "Xz"
      [] fmt = "TarLzma" -> "Xz"
      [] fmt = "TarZst"  -> "Zstd"
      [] fmt = "Zip"     -> "ZipArchive"

\* Extractor::extract runs on the calling thread (a call of
\* Extractor::extract) or on the blocking-pool thread (async.rs line 93)
EngineRuns == call.op = "extract" \/ worker = "running"

\* what a read of `self` yields: the Extractor, or, once it was dropped and
\* the worker reads it through the raw pointer of async.rs line 92, anything
InnerView == IF alive THEN {extractor} ELSE Extractors

\* the mutant of Return that leaves the scratch directory behind
Return_KeepsScratch(r, f) ==
    /\ result' = r
    /\ pc' = "returned"
    /\ temp_dir' = FALSE
    /\ fs' = f

\* `return` from extract (a `?` or the final value): locals are dropped, and
\* dropping temp_dir removes the scratch directory
Return(r, f) ==
    /\ result' = r
    /\ pc' = "returned"
    /\ temp_dir' = FALSE
    /\ fs' = IF temp_dir THEN remove_dir_all(f, Scratch) ELSE f

\* the mutant of ResolveFormat that falls back on Tar when detection fails
ResolveFormat_DefaultsToTar(inner, path) ==
    IF inner.format # None THEN inner.format
    ELSE IF detect_from_path(path) # None THEN detect_from_path(path)
    ELSE "Tar"

\* the mutant of ResolveFormat that asks the filename before the override
ResolveFormat_DetectionFirst(inner, path) ==
    IF detect_from_path(path) # None THEN detect_from_path(path) ELSE inner.format

\* extract, lines 95-101: the override, else detection on archive_path
ResolveFormat(inner, path) ==
    IF inner.format # None THEN inner.format ELSE detect_from_path(path)

Resolve ==
    /\ EngineRuns /\ pc = "resolve"
    /\ \E inner \in InnerView :
         LET f == ResolveFormat(inner, call.archive_path) IN
         IF f = None
         THEN /\ Return("UnsupportedFormat", fs)
              /\ UNCHANGED format
         ELSE /\ format' = f
              /\ pc' = "create_dest"
              /\ UNCHANGED <<fs, temp_dir, result>>
    /\ dangling' = (dangling \/ ~alive)
    /\ UNCHANGED <<extractor, call, archive, compression, src_dir, signals>>
    /\ UNCHANGED <<hvars, caller, worker, outcome, alive>>

\* extract, line 104: fs_err::create_dir_all(destination)?
CreateDest ==
    /\ EngineRuns /\ pc = "create_dest"
    /\ IF CanCreateDirAll(fs, Dest)
       THEN /\ fs' = create_dir_all(fs, Dest)
            /\ pc' = "on_start"
            /\ UNCHANGED <<temp_dir, result>>
       ELSE Return("Io", fs)
    /\ UNCHANGED <<extractor, call, archive, format, compression, src_dir, signals>>
    /\ UNCHANGED <<hvars, avars>>

\* the mutant of OnStart that goes on to the unpacking without the signal
OnStart_Unsignalled ==
    /\ EngineRuns /\ pc = "on_start"
    /\ pc' = "open"
    /\ dangling' = (dangling \/ ~alive)
    /\ UNCHANGED <<extractor, call, fs, archive, format, compression, temp_dir,
                   src_dir, result, signals>>
    /\ UNCHANGED <<hvars, caller, worker, outcome, alive>>

\* extract, lines 107-109: the size when metadata() succeeds, then on_start
OnStart ==
    /\ EngineRuns /\ pc = "on_start"
    /\ signals' = Append(signals,
            [sig |-> "on_start",
             arg |-> IF Exists(fs, ArchiveFile) THEN "Some" ELSE "None"])
    /\ pc' = "open"
    /\ dangling' = (dangling \/ ~alive)
    /\ UNCHANGED <<extractor, call, fs, archive, format, compression, temp_dir,
                   src_dir, result>>
    /\ UNCHANGED <<hvars, caller, worker, outcome, alive>>

\* extract lines 111-130 with extract_tar lines 140-165 / extract_zip lines
\* 185-189: dispatch on the format, open the file, build the reader, read
\* self.strip_root_dir.  File::open fails when the file is missing;
\* ZipArchive::new reads the file and fails on what is no zip; zstd's
\* Decoder::new may fail.
Open ==
    /\ EngineRuns /\ pc = "open"
    /\ compression' = Compression(format)
    /\ IF ~Exists(fs, ArchiveFile)
       THEN Return("Io", fs) /\ UNCHANGED <<archive, dangling>>
       ELSE \/ /\ Compression(format) = "ZipArchive"
               /\ \E enc \in ArchiveFormat \ {"Zip"} :
                     archive' = [read |-> TRUE, encoding |-> enc, entries |-> {}]
               /\ Return("ZipExtraction", fs)
               /\ UNCHANGED dangling
            \/ /\ Compression(format) = "Zstd"
               /\ Return("Io", fs)
               /\ UNCHANGED <<archive, dangling>>
            \/ /\ \E inner \in InnerView :
                    pc' = IF inner.strip_root_dir THEN "tempdir" ELSE "unpack"
               /\ dangling' = (dangling \/ ~alive)
               /\ UNCHANGED <<archive, fs, temp_dir, result>>
    /\ UNCHANGED <<extractor, call, format, src_dir, signals>>
    /\ UNCHANGED <<hvars, caller, worker, outcome, alive>>

\* extract_tar line 167 / extract_zip line 191: tempfile::tempdir()?
TempDir ==
    /\ EngineRuns /\ pc = "tempdir"
    /\ \/ /\ fs' = fs \cup {Dir(TempRoot), Dir(Scratch)}
          /\ temp_dir' = TRUE
          /\ pc' = "unpack"
          /\ UNCHANGED result
       \/ Return("Io", fs)
    /\ UNCHANGED <<extractor, call, archive, format, compression, src_dir, signals>>
    /\ UNCHANGED <<hvars, avars>>

\* the mutant of UnpackError that reports every unpack failure as a tar one
UnpackError_AlwaysTar(c) == "TarExtraction"

\* the error kind `map_err` gives an unpack failure
UnpackError(c) == IF c = "ZipArchive" THEN "ZipExtraction" ELSE "TarExtraction"

\* the mutant of Unpack that writes into the destination with stripping too
Unpack_IntoDestination(ts) ==
    /\ EngineRuns /\ pc = "unpack"
    /\ LET target == Dest IN
       \/ \E enc \in {e \in ArchiveFormat : Compression(e) # compression} :
             /\ compression = "ZipArchive" => enc = "Zip"
             /\ archive' = [read |-> TRUE, encoding |-> enc, entries |-> {}]
             /\ Return(UnpackError(compression), fs)
       \/ \E t \in ts, enc \in {e \in ArchiveFormat : Compression(e) = compression} :
             /\ archive' = [read |-> TRUE, encoding |-> enc, entries |-> t]
             /\ \/ /\ fs' = fs \cup Unpacked(t, target)
                   /\ pc' = IF temp_dir THEN "move_first" ELSE "on_finish"
                   /\ UNCHANGED <<temp_dir, result>>
                \/ \E w \in Partials(t) :
                       Return(UnpackError(compression), fs \cup Unpacked(w, target))
    /\ UNCHANGED <<extractor, call, format, compression, src_dir, signals>>
    /\ UNCHANGED <<hvars, avars>>

\* extract_tar lines 168-176 / extract_zip lines 192-200: unpack into the
\* scratch directory or into the destination.  The file holds entries t (one
\* of ts) in encoding enc; a reader built for another encoding fails on the
\* first bytes, before any entry is seen (entries stays {}), and any unpack
\* may fail having written a part of the entries.
Unpack(ts) ==
    /\ EngineRuns /\ pc = "unpack"
    /\ LET target == IF temp_dir THEN Scratch ELSE Dest IN
       \/ \E enc \in {e \in ArchiveFormat : Compression(e) # compression} :
             /\ compression = "ZipArchive" => enc = "Zip"
             /\ archive' = [read |-> TRUE, encoding |-> enc, entries |-> {}]
             /\ Return(UnpackError(compression), fs)
       \/ \E t \in ts, enc \in {e \in ArchiveFormat : Compression(e) = compression} :
             /\ archive' = [read |-> TRUE, encoding |-> enc, entries |-> t]
             /\ \/ /\ fs' = fs \cup Unpacked(t, target)
                   /\ pc' = IF temp_dir THEN "move_first" ELSE "on_finish"
                   /\ UNCHANGED <<temp_dir, result>>
                \/ \E w \in Partials(t) :
                       Return(UnpackError(compression), fs \cup Unpacked(w, target))
    /\ UNCHANGED <<extractor, call, format, compression, src_dir, signals>>
    /\ UNCHANGED <<hvars, avars>>

\* the mutant of ListingError that takes a listing without a file for empty
ListingError_NoFiles(entries) ==
    IF \A e \in entries : e.kind = "dir" THEN "EmptyArchive" ELSE None

\* the mutant of ListingError that lets an empty listing through
ListingError_Never(entries) == None

\* move_extracted_dir lines 230-235: the first entry of the listing, or
\* EmptyArchive when the scratch directory lists nothing
ListingError(entries) == IF entries = {} THEN "EmptyArchive" ELSE None

\* the mutant of SrcDir that never strips
SrcDir_NeverStrips(entries, src) == src

\* the mutant of SrcDir that strips whenever the listing holds a directory
SrcDir_AnyDirectory(entries, src) ==
    IF \E e \in entries : e.kind = "dir"
    THEN (CHOOSE e \in entries : e.kind = "dir").path
    ELSE src

\* move_extracted_dir lines 238-244: the single top-level directory when the
\* listing has exactly one entry and it is a directory, else src itself
SrcDir(entries, src) ==
    IF Cardinality(entries) = 1 /\ \A e \in entries : e.kind = "dir"
    THEN (CHOOSE e \in entries : TRUE).path
    ELSE src

\* move_extracted_dir lines 230-244
MoveFirst ==
    /\ EngineRuns /\ pc = "move_first"
    /\ LET entries == read_dir(fs, Scratch) IN
         IF ListingError(entries) # None
         THEN Return(ListingError(entries), fs) /\ UNCHANGED src_dir
         ELSE /\ src_dir' = SrcDir(entries, Scratch)
              /\ pc' = "move"
              /\ UNCHANGED <<fs, temp_dir, result>>
    /\ UNCHANGED <<extractor, call, archive, format, compression, signals>>
    /\ UNCHANGED <<hvars, avars>>

\* the mutant of MoveEntry that undoes the earlier moves when a rename fails
MoveEntry_RollsBack ==
    /\ EngineRuns /\ pc = "move"
    /\ \E entry \in read_dir(fs, src_dir) :
         LET destination_path == Dest \o <<entry.path[Len(entry.path)]>> IN
         \/ /\ fs' = rename(fs, entry.path, destination_path)
            /\ UNCHANGED <<pc, temp_dir, result>>
         \/ Return("Io", {n \in fs : n.id = <<>>})
    /\ UNCHANGED <<extractor, call, archive, format, compression, src_dir, signals>>
    /\ UNCHANGED <<hvars, avars>>

\* move_extracted_dir lines 247-251: one turn of the loop, on whichever
\* entry read_dir yields next; fs_err::rename(..)? returns the io::Error
MoveEntry ==
    /\ EngineRuns /\ pc = "move"
    /\ \E entry \in read_dir(fs, src_dir) :
         LET destination_path == Dest \o <<entry.path[Len(entry.path)]>> IN
         \/ /\ fs' = rename(fs, entry.path, destination_path)
            /\ UNCHANGED <<pc, temp_dir, result>>
         \/ Return("Io", fs)
    /\ UNCHANGED <<extractor, call, archive, format, compression, src_dir, signals>>
    /\ UNCHANGED <<hvars, avars>>

\* move_extracted_dir line 253: the loop is over, Ok(())
MoveDone ==
    /\ EngineRuns /\ pc = "move"
    /\ read_dir(fs, src_dir) = {}
    /\ pc' = "on_finish"
    /\ UNCHANGED <<extractor, call, fs, archive, format, compression, temp_dir,
                   src_dir, result, signals>>
    /\ UNCHANGED <<hvars, avars>>

\* the mutant of FinishMessage that ends every extraction with the tar message
FinishMessage_AlwaysTar(c) == "Extracted tar archive"

\* the message extract_tar (line 179) / extract_zip (line 203) finishes with
FinishMessage(c) ==
    IF c = "ZipArchive" THEN "Extracted ZIP archive" ELSE "Extracted tar archive"

\* extract_tar lines 179-180 / extract_zip lines 203-204: on_finish, Ok(())
OnFinish ==
    /\ EngineRuns /\ pc = "on_finish"
    /\ signals' = Append(signals, [sig |-> "on_finish", arg |-> FinishMessage(compression)])
    /\ Return("Ok", fs)
    /\ dangling' = (dangling \/ ~alive)
    /\ UNCHANGED <<extractor, call, archive, format, compression, src_dir>>
    /\ UNCHANGED <<hvars, caller, worker, outcome, alive>>

\* a panic inside extract, raised by the code extract calls that the crate
\* does not own, the reporter's on_start (line 109) and on_finish (lines 179,
\* 203): the stack unwinds, which drops temp_dir, and no value is returned
Panic ==
    /\ EngineRuns
    /\ pc \in {"on_start", "on_finish"}
    /\ pc' = "panicked"
    /\ temp_dir' = FALSE
    /\ fs' = IF temp_dir THEN remove_dir_all(fs, Scratch) ELSE fs
    /\ UNCHANGED <<extractor, call, archive, format, compression, src_dir, result,
                   signals>>
    /\ UNCHANGED <<hvars, avars>>

\* Extractor::extract(archive_path, destination) is called
CallExtract ==
    /\ call.op = "none" /\ pc = "idle"
    /\ \E path \in ArchivePaths :
         call' = [op |-> "extract", archive_path |-> path, url |-> None]
    /\ pc' = "resolve"
    /\ UNCHANGED <<extractor, fs, archive, format, compression, temp_dir, src_dir,
                   result, signals>>
    /\ UNCHANGED <<hvars, avars>>

EngineIdle ==
    /\ call = [op |-> "none", archive_path |-> "", url |-> None]
    /\ archive = NoArchive
    /\ pc = "idle"
    /\ format = None
    /\ compression = None
    /\ temp_dir = FALSE
    /\ src_dir = <<>>
    /\ result = Pending
    /\ signals = <<>>
    /\ caller = "none"
    /\ worker = "none"
    /\ outcome = Pending
    /\ alive = TRUE
    /\ dangling = FALSE

Init ==
    /\ filename = "" /\ detected = Unset /\ builder = NoBuilder /\ reader = NoReader /\ install = NoInstall
    /\ extractor \in Extractors
    /\ \E d \in DestStates, present \in BOOLEAN :
         fs = d \cup (IF present THEN {File(ArchiveFile)} ELSE {})
    /\ fs0 = fs
    /\ EngineIdle

UnpackAny == Unpack(Archives)

Next ==
    \/ CallExtract
    \/ Resolve \/ CreateDest \/ OnStart \/ Open \/ TempDir \/ UnpackAny
    \/ MoveFirst \/ MoveEntry \/ MoveDone \/ OnFinish \/ Panic

Spec == Init /\ [][Next]_vars

\* Specification SpecReuse: the same Extractor is used for call after call.
\* extract takes &self (line 93): once a call has returned, the next one
\* starts on the file system the earlier one left, with new locals and with
\* the reporter's record of the call begun anew.  The next call is made when
\* the earlier one left none of its entries behind (it failed before moving
\* any, or the archive was empty).
CallAgain ==
    /\ call.op = "extract" /\ pc = "returned"
    /\ \A n \in fs : n.id = <<>>
    /\ \E path \in ArchivePaths :
         call' = [op |-> "extract", archive_path |-> path, url |-> None]
    /\ pc' = "resolve"
    /\ archive' = NoArchive
    /\ format' = None
    /\ compression' = None
    /\ src_dir' = <<>>
    /\ result' = Pending
    /\ signals' = <<>>
    /\ fs0' = fs
    /\ UNCHANGED <<extractor, fs, temp_dir>>
    /\ UNCHANGED <<filename, detected, builder, reader, install, avars>>

NextReuse == Next \/ CallAgain

SpecReuse == Init /\ [][NextReuse]_vars

\* the file system after the entries es of src_dir were renamed into dest
RECURSIVE MoveAll(_, _)
MoveAll(f, es) ==
    IF es = {} THEN f
    ELSE LET e == CHOOSE x \in es : TRUE
         IN  MoveAll(rename(f, e.path, Dest \o <<e.path[Len(e.path)]>>), es \ {e})

\* move_extracted_dir as a whole, on the unpacked scratch directory: the
\* values it can make extract return and the file system left behind, the
\* scratch directory dropped; a rename may fail after any part of the moves
MoveOutcomes(f) ==
    LET entries == read_dir(f, Scratch) IN
    IF ListingError(entries) # None
    THEN {[result |-> ListingError(entries), fs |-> remove_dir_all(f, Scratch)]}
    ELSE LET all == read_dir(f, SrcDir(entries, Scratch)) IN
         {[result |-> IF es = all THEN "Ok" ELSE "Io",
           fs |-> remove_dir_all(MoveAll(f, es), Scratch)] : es \in SUBSET all}

\* Extractor::extract as a whole: every value a call that does not panic can
\* return when it runs with configuration `inner` on the file system f and
\* the archive file holds one of ts, each with the file system it leaves
ExtractOutcomes(inner, path, f, ts) ==
    LET fmt == ResolveFormat(inner, path)
        c == Compression(fmt)
        made == create_dir_all(f, Dest)
        scratch == made \cup {Dir(TempRoot), Dir(Scratch)}
        R(r, g) == [result |-> r, fs |-> g]
    IN  IF fmt = None THEN {R("UnsupportedFormat", f)}
        ELSE IF ~CanCreateDirAll(f, Dest) THEN {R("Io", f)}
        ELSE IF ~Exists(made, ArchiveFile) THEN {R("Io", made)}
        ELSE (IF c = "ZipArchive" THEN {R("ZipExtraction", made)} ELSE {})
             \cup (IF c = "Zstd" THEN {R("Io", made)} ELSE {})
             \cup (IF inner.strip_root_dir
                   THEN {R("Io", made)}
                        \cup {R(UnpackError(c), remove_dir_all(scratch, Scratch))}
                        \cup UNION {MoveOutcomes(scratch \cup Unpacked(t, Scratch)) : t \in ts}
                   ELSE {R(UnpackError(c), made \cup Unpacked(w, Dest)) :
                            w \in UNION {Partials(t) : t \in ts}}
                        \cup {R("Ok", made \cup Unpacked(t, Dest)) : t \in ts})

-----------------------------------------------------------------------------
(* async.rs: AsyncExtractor                                                *)

\* Url::path of "scheme://host/path?query#fragment": the part from the
\* first '/' after the host up to the query or fragment, "/" when absent
RECURSIVE UpTo(_, _)
UpTo(s, stops) ==
    IF Len(s) = 0 \/ SubSeq(s, 1, 1) \in stops THEN ""
    ELSE SubSeq(s, 1, 1) \o UpTo(SubSeq(s, 2, Len(s)), stops)

url_path(url) ==
    LET scheme == UpTo(url, {":"})
        rest == SubSeq(url, Len(scheme) + 4, Len(url))
        host == UpTo(rest, {"/", "?", "#"})
        p == UpTo(SubSeq(rest, Len(host) + 1, Len(rest)), {"?", "#"})
    IN  IF p = "" THEN "/" ELSE p

\* the mutant of detect_from_url that runs the suffix tests on the whole url
detect_from_url_WholeUrl(url) == detect_from_filename(url)

\* ArchiveFormat::detect_from_url (format.rs)
detect_from_url(url) ==
    IF file_name(url_path(url)) = None THEN None
    ELSE detect_from_filename(file_name(url_path(url)))

\* the url arguments of extract_from_url
Urls == {"https://example.com/path/test.tar.gz?query=param",
         "https://example.com/download?file=a.zip"}

\* the archives and destinations the asynchronous calls are run on
AsyncArchives ==
    {t \in Archives : \A e \in t : e.path \in {<<"pkg">>, <<"pkg", "a.txt">>}}

AsyncDestStates == { {} }

\* AsyncExtractor::extract(archive_path, destination) is called and polled
CallAsyncExtract ==
    /\ call.op = "none" /\ caller = "none"
    /\ \E path \in ArchivePaths :
         call' = [op |-> "async_extract", archive_path |-> path, url |-> None]
    /\ caller' = "extract"
    /\ UNCHANGED <<extractor, fs, archive, pc, format, compression, temp_dir, src_dir,
                   result, signals>>
    /\ UNCHANGED <<hvars, worker, outcome, alive, dangling>>

\* AsyncExtractor::extract_from_url(archive_path, destination, url) is called
CallExtractFromUrl ==
    /\ call.op = "none" /\ caller = "none"
    /\ \E path \in ArchivePaths, url \in Urls :
         call' = [op |-> "extract_from_url", archive_path |-> path, url |-> url]
    /\ caller' = "from_url"
    /\ UNCHANGED <<extractor, fs, archive, pc, format, compression, temp_dir, src_dir,
                   result, signals>>
    /\ UNCHANGED <<hvars, worker, outcome, alive, dangling>>

\* the mutant of UrlFormat that matches the suffixes on the whole url string
UrlFormat_WholeUrl(inner, url) ==
    IF inner.format # None THEN inner.format ELSE detect_from_filename(url)

\* extract_from_url lines 108-111: the local `format`
UrlFormat(inner, url) ==
    IF inner.format # None THEN inner.format ELSE detect_from_url(url)

\* extract_from_url lines 108-120: FormatDetection when neither the override
\* nor the url gives a format, else self.extract(archive_path, destination)
FromUrl ==
    /\ caller = "from_url"
    /\ IF UrlFormat(extractor, call.url) = None
       THEN /\ outcome' = "FormatDetection"
            /\ caller' = "returned"
       ELSE /\ caller' = "extract"
            /\ UNCHANGED outcome
    /\ UNCHANGED <<hvars, evars, worker, alive, dangling>>

\* extract lines 84-95: the pointer to self.inner is taken, the closure is
\* handed to spawn_blocking and the JoinHandle is awaited
Spawn ==
    /\ caller = "extract"
    /\ worker' = "queued"
    /\ caller' = "awaiting"
    /\ UNCHANGED <<hvars, evars, outcome, alive, dangling>>

\* a thread of the blocking pool starts the closure (lines 89-94)
WorkerStart ==
    /\ worker = "queued"
    /\ worker' = "running"
    /\ pc' = "resolve"
    /\ UNCHANGED <<extractor, call, fs, archive, format, compression, temp_dir,
                   src_dir, result, signals>>
    /\ UNCHANGED <<hvars, caller, outcome, alive, dangling>>

\* the runtime shuts down before the closure got a thread: the task is
\* cancelled and its JoinHandle yields a JoinError that is no panic
Shutdown ==
    /\ worker = "queued"
    /\ worker' = "cancelled"
    /\ UNCHANGED <<hvars, evars, caller, outcome, alive, dangling>>

\* what the JoinHandle yields once the task is over
JoinReady == worker = "cancelled" \/ (worker = "running" /\ pc \in {"returned", "panicked"})

JoinResult ==
    IF worker = "cancelled" THEN "JoinError::Cancelled"
    ELSE IF pc = "panicked" THEN "JoinError::Panic"
    ELSE "Ok"

\* the mutant of AwaitOutcome that wraps the closure's error in Io as well
AwaitOutcome_FlattensErrors(join, res) == IF join = "Ok" /\ res = "Ok" THEN "Ok" ELSE "Io"

\* extract lines 95-96: .await.map_err(|e| ArchiveError::Io(..))? yields the
\* closure's own Result, and an Io error for every JoinError
AwaitOutcome(join, res) == IF join = "Ok" THEN res ELSE "Io"

Join ==
    /\ caller = "awaiting" /\ JoinReady
    /\ outcome' = AwaitOutcome(JoinResult, result)
    /\ caller' = "returned"
    /\ worker' = "joined"
    /\ UNCHANGED <<hvars, evars, alive, dangling>>

\* the mutant of DropFuture where dropping the JoinHandle aborts the task
DropFuture_AbortsWorker ==
    /\ caller = "awaiting"
    /\ caller' = "dropped"
    /\ worker' = IF worker \in {"queued", "running"} THEN "cancelled" ELSE worker
    /\ UNCHANGED <<hvars, evars, outcome, alive, dangling>>

\* the task awaiting the future drops it (cancellation, a timeout, select!);
\* the JoinHandle is dropped with it, which detaches the blocking task
DropFuture ==
    /\ caller = "awaiting"
    /\ caller' = "dropped"
    /\ UNCHANGED <<hvars, evars, worker, outcome, alive, dangling>>

\* the owner drops the AsyncExtractor, which nothing borrows any more
Release ==
    /\ caller = "dropped" /\ alive
    /\ alive' = FALSE
    /\ UNCHANGED <<hvars, evars, caller, worker, outcome, dangling>>

InitAsync ==
    /\ filename = "" /\ detected = Unset /\ builder = NoBuilder /\ reader = NoReader /\ install = NoInstall
    /\ extractor \in Extractors
    /\ \E d \in AsyncDestStates, present \in BOOLEAN :
         fs = d \cup (IF present THEN {File(ArchiveFile)} ELSE {})
    /\ fs0 = fs
    /\ EngineIdle

UnpackAsync == Unpack(AsyncArchives)

NextAsync ==
    \/ CallAsyncExtract \/ CallExtractFromUrl \/ FromUrl \/ Spawn \/ WorkerStart
    \/ Shutdown \/ Join \/ DropFuture \/ Release
    \/ Resolve \/ CreateDest \/ OnStart \/ Open \/ TempDir \/ UnpackAsync
    \/ MoveFirst \/ MoveEntry \/ MoveDone \/ OnFinish \/ Panic

SpecAsync == InitAsync /\ [][NextAsync]_vars

\* a step of the thread that runs Extractor::extract
EngineStep ==
    \/ Resolve \/ CreateDest \/ OnStart \/ Open \/ TempDir \/ UnpackAsync
    \/ MoveFirst \/ MoveEntry \/ MoveDone \/ OnFinish \/ Panic

\* SpecAsync with a blocking-pool thread that keeps running: the closure runs
\* on an operating-system thread of its own, which no await point suspends
\* and no dropped handle stops, and every step of extract is a finite
\* operation
\* the configurations the runs with a fair worker start from
LiveExtractors == {e \in Extractors : e.format \in {None, "Zip"}}

InitAsyncLive ==
    /\ InitAsync
    /\ extractor \in LiveExtractors

SpecAsyncLive == InitAsyncLive /\ [][NextAsync]_vars /\ WF_vars(EngineStep)

-----------------------------------------------------------------------------
(* Specification SpecFormat: detect_from_filename applied to a filename    *)

InitFormat ==
    /\ filename \in Filenames
    /\ detected = Unset
    /\ builder = NoBuilder /\ reader = NoReader /\ install = NoInstall
    /\ extractor = [strip_root_dir |-> TRUE, format |-> None]
    /\ fs = {} /\ fs0 = {}
    /\ EngineIdle

DetectFromFilename ==
    /\ detected = Unset
    /\ detected' = detect_from_filename(filename)
    /\ UNCHANGED <<filename, fs0, builder, reader, install, evars, avars>>

NextFormat == DetectFromFilename

SpecFormat == InitFormat /\ [][NextFormat]_vars

-----------------------------------------------------------------------------
(* Specification SpecUrl: detect_from_url applied to a url                 *)

\* the path segments, queries and fragments the urls are made of
UrlSegments == {"file.zip", "FILE.TAR.GZ", "download", "a.tgz", "v1.0", ".tar"}
UrlQueries == {"", "?query=param", "?file=a.zip"}
UrlFragments == {"", "#frag", "#/b.tar.xz"}

\* paths of no, one and two segments, with and without a trailing slash
UrlPaths ==
    {"", "/"}
    \cup {"/" \o a \o t : a \in UrlSegments, t \in {"", "/"}}
    \cup {"/" \o a \o "/" \o b \o t : a \in UrlSegments, b \in UrlSegments, t \in {"", "/"}}

DetectionUrls ==
    {"https://example.com" \o p \o q \o g :
        p \in UrlPaths, q \in UrlQueries, g \in UrlFragments}

InitUrl ==
    /\ filename \in DetectionUrls
    /\ detected = Unset
    /\ builder = NoBuilder /\ reader = NoReader /\ install = NoInstall
    /\ extractor = [strip_root_dir |-> TRUE, format |-> None]
    /\ fs = {} /\ fs0 = {}
    /\ EngineIdle

DetectFromUrl ==
    /\ detected = Unset
    /\ detected' = detect_from_url(filename)
    /\ UNCHANGED <<filename, fs0, builder, reader, install, evars, avars>>

NextUrl == DetectFromUrl

SpecUrl == InitUrl /\ [][NextUrl]_vars

-----------------------------------------------------------------------------
(* lib.rs: is_archive and is_tarball (specification SpecLib)               *)

\* is_archive
is_archive(name) == detect_from_filename(name) # None

\* the mutant of is_tarball whose pattern leaves out TarLzma
is_tarball_WithoutLzma(name) ==
    detect_from_filename(name) \in {"Tar", "TarGz", "TarBz2", "TarXz", "TarZst"}

\* is_tarball: matches! on the six tar variants
is_tarball(name) ==
    detect_from_filename(name) \in {"Tar", "TarGz", "TarBz2", "TarXz", "TarZst", "TarLzma"}

\* no function of lib.rs has been called
NotCalled == [fn |-> "none", value |-> FALSE]

InitLib ==
    /\ filename \in Filenames
    /\ detected = NotCalled
    /\ builder = NoBuilder /\ reader = NoReader /\ install = NoInstall
    /\ extractor = [strip_root_dir |-> TRUE, format |-> None]
    /\ fs = {} /\ fs0 = {}
    /\ EngineIdle

IsArchive ==
    /\ detected = NotCalled
    /\ detected' = [fn |-> "is_archive", value |-> is_archive(filename)]
    /\ UNCHANGED <<filename, fs0, builder, reader, install, evars, avars>>

IsTarball ==
    /\ detected = NotCalled
    /\ detected' = [fn |-> "is_tarball", value |-> is_tarball(filename)]
    /\ UNCHANGED <<filename, fs0, builder, reader, install, evars, avars>>

NextLib == IsArchive \/ IsTarball

SpecLib == InitLib /\ [][NextLib]_vars

-----------------------------------------------------------------------------
(* Specification SpecBuilder: an ExtractorBuilder and an                   *)
(* AsyncExtractorBuilder that are given the same calls                     *)

\* ExtractorBuilder::new() and AsyncExtractorBuilder::new()
InitBuilder ==
    /\ filename = "" /\ detected = Unset /\ reader = NoReader /\ install = NoInstall
    /\ builder = [last |-> "new", arg |-> None,
                  sync |-> ExtractorBuilder_new, async |-> AsyncExtractorBuilder_new]
    /\ extractor = [last |-> "none"]
    /\ fs = {} /\ fs0 = {}
    /\ EngineIdle

\* the builders have not been consumed by build()
Building == builder.last \notin {"none", "build"}

WithStripRootDir ==
    /\ Building
    /\ \E strip \in BOOLEAN :
         builder' = [last |-> "with_strip_root_dir", arg |-> strip,
                     sync |-> with_strip_root_dir(builder.sync, strip),
                     async |-> async_with_strip_root_dir(builder.async, strip)]
    /\ UNCHANGED <<filename, detected, fs0, reader, install, evars, avars>>

WithProgressReporter ==
    /\ Building
    /\ \E reporter \in Reporters :
         builder' = [last |-> "with_progress_reporter", arg |-> reporter,
                     sync |-> with_progress_reporter(builder.sync, reporter),
                     async |-> async_with_progress_reporter(builder.async, reporter)]
    /\ UNCHANGED <<filename, detected, fs0, reader, install, evars, avars>>

WithFormat ==
    /\ Building
    /\ \E fmt \in ArchiveFormat :
         builder' = [last |-> "with_format", arg |-> fmt,
                     sync |-> with_format(builder.sync, fmt),
                     async |-> async_with_format(builder.async, fmt)]
    /\ UNCHANGED <<filename, detected, fs0, reader, install, evars, avars>>

\* build() on both builders: the Extractor and the AsyncExtractor
Build ==
    /\ Building
    /\ builder' = [builder EXCEPT !.last = "build", !.arg = None]
    /\ extractor' = [last |-> "build", sync |-> build(builder.sync),
                     async |-> async_build(builder.async)]
    /\ UNCHANGED <<filename, detected, fs0, reader, install>>
    /\ UNCHANGED <<call, fs, archive, pc, format, compression, temp_dir, src_dir,
                   result, signals>>
    /\ UNCHANGED avars

NextBuilder == WithStripRootDir \/ WithProgressReporter \/ WithFormat \/ Build

SpecBuilder == InitBuilder /\ [][NextBuilder]_vars

-----------------------------------------------------------------------------
(* Specification SpecReader: read and seek calls on a ProgressReader       *)

\* ProgressReader::new(inner, reporter)
InitReader ==
    /\ filename = "" /\ detected = Unset /\ builder = NoBuilder /\ install = NoInstall
    /\ reader = [last |-> "new", self |-> ProgressReader_new, ret |-> <<>>,
                 on_progress |-> <<>>, calls |-> 0]
    /\ extractor = [strip_root_dir |-> TRUE, format |-> None]
    /\ fs = {} /\ fs0 = {}
    /\ EngineIdle

\* the reader after a call: its fields, the values its calls returned and
\* the on_progress calls its reporter received, in order
AfterCall(op, out) ==
    [last |-> op, self |-> out.self,
     ret |-> Append(reader.ret, [op |-> op, ok |-> out.ret.ok, n |-> out.ret.n]),
     on_progress |-> reader.on_progress \o out.on_progress,
     calls |-> reader.calls + 1]

\* reader.read(buf) with a buffer of n bytes
Read ==
    /\ reader.last # "none" /\ reader.calls < MaxCalls
    /\ \E n \in 0..MaxBuf : \E r \in InnerRead(reader.self.inner, n) :
         reader' = AfterCall("read", read(reader.self, r))
    /\ UNCHANGED <<filename, detected, fs0, builder, install, evars, avars>>

\* reader.seek(pos)
Seek ==
    /\ reader.last # "none" /\ reader.calls < MaxCalls
    /\ \E r \in InnerSeek(reader.self.inner) :
         reader' = AfterCall("seek", seek(reader.self, r))
    /\ UNCHANGED <<filename, detected, fs0, builder, install, evars, avars>>

NextReader == Read \/ Seek

SpecReader == InitReader /\ [][NextReader]_vars

-----------------------------------------------------------------------------
(* install/test_utils.rs: install_package_to_environment                   *)

\* the packages that are installed, by the stem of PrefixRecord::file_name
Packages == {"foo-1.0-0", "bar-2.1-py_0"}

\* what link_package can return as the linked paths
LinkedPaths == { {}, {"bin/foo"}, {"bin/foo", "lib/libfoo.so"} }

\* PrefixRecord::file_name
record_file_name(package) == package \o ".json"

\* the prefix before the call, as [conda_meta, records]: no conda-meta, a
\* regular file of that name, an empty conda-meta directory, and one that
\* holds an older record of foo
Prefixes ==
    { [conda_meta |-> "absent", records |-> {}],
      [conda_meta |-> "file", records |-> {}],
      [conda_meta |-> "dir", records |-> {}],
      [conda_meta |-> "dir",
       records |-> {[file |-> record_file_name("foo-1.0-0"), files |-> {}]}] }

\* the mutant of MatchResult that returns Ok(()) whenever the worker ended
MatchResult_DropsWorkerResult(join, res) ==
    IF join = "Ok" THEN [pc |-> "returned", outcome |-> "Ok"]
    ELSE IF join = "JoinError::Panic" THEN [pc |-> "panicked", outcome |-> Pending]
    ELSE [pc |-> "returned", outcome |-> "Ok"]

\* lines 62-71: `match result`: Ok(result) => Ok(result?); a JoinError that
\* is a panic is resumed in the caller; any other JoinError => Ok(())
MatchResult(join, res) ==
    IF join = "Ok" THEN [pc |-> "returned", outcome |-> res]
    ELSE IF join = "JoinError::Panic" THEN [pc |-> "panicked", outcome |-> Pending]
    ELSE [pc |-> "returned", outcome |-> "Ok"]

\* install_package_to_environment(target_prefix, package_dir, ..) is called
InitInstall ==
    /\ filename = "" /\ detected = Unset /\ builder = NoBuilder /\ reader = NoReader
    /\ \E package \in Packages, prefix \in Prefixes :
         install = [pc |-> "link", package |-> package, prefix0 |-> prefix,
                    prefix |-> prefix, linked |-> FALSE, paths |-> {},
                    worker |-> "none", worker_result |-> Pending, outcome |-> Pending]
    /\ extractor = [strip_root_dir |-> TRUE, format |-> None]
    /\ fs = {} /\ fs0 = {}
    /\ EngineIdle

\* lines 28-34: link_package(..).await?
LinkPackage ==
    /\ install.pc = "link"
    /\ \/ \E paths \in LinkedPaths :
            install' = [install EXCEPT !.linked = TRUE, !.paths = paths, !.pc = "spawn"]
       \/ install' = [install EXCEPT !.outcome = "LinkError", !.pc = "returned"]
    /\ UNCHANGED <<filename, detected, fs0, builder, reader, evars, avars>>

\* lines 37-61: the PrefixRecord is built, the closure is handed to
\* spawn_blocking and the JoinHandle is awaited
InstallSpawn ==
    /\ install.pc = "spawn"
    /\ install' = [install EXCEPT !.worker = "queued", !.pc = "awaiting"]
    /\ UNCHANGED <<filename, detected, fs0, builder, reader, evars, avars>>

\* a thread of the blocking pool starts the closure
InstallWorkerStart ==
    /\ install.pc # "none" /\ install.worker = "queued"
    /\ install' = [install EXCEPT !.worker = "create_dir_all"]
    /\ UNCHANGED <<filename, detected, fs0, builder, reader, evars, avars>>

\* the runtime shuts down before the closure got a thread: the JoinHandle
\* yields a JoinError that is no panic
InstallShutdown ==
    /\ install.pc # "none" /\ install.worker = "queued"
    /\ install' = [install EXCEPT !.worker = "cancelled"]
    /\ UNCHANGED <<filename, detected, fs0, builder, reader, evars, avars>>

\* lines 54-55: std::fs::create_dir_all(&conda_meta_path)?
InstallCreateDir ==
    /\ install.pc # "none" /\ install.worker = "create_dir_all"
    /\ \/ /\ install.prefix.conda_meta # "file"
          /\ install' = [install EXCEPT !.prefix.conda_meta = "dir", !.worker = "write"]
       \/ install' = [install EXCEPT !.worker_result = "Io", !.worker = "done"]
    /\ UNCHANGED <<filename, detected, fs0, builder, reader, evars, avars>>

\* lines 58-59: prefix_record.write_to_path(pkg_meta_path, true)
InstallWrite ==
    /\ install.pc # "none" /\ install.worker = "write"
    /\ LET file == record_file_name(install.package)
           record == [file |-> file, files |-> install.paths]
       IN  \/ install' = [install EXCEPT
                 !.prefix.records = {r \in @ : r.file # file} \cup {record},
                 !.worker_result = "Ok", !.worker = "done"]
           \/ install' = [install EXCEPT !.worker_result = "Io", !.worker = "done"]
    /\ UNCHANGED <<filename, detected, fs0, builder, reader, evars, avars>>

\* the closure panics
InstallWorkerPanic ==
    /\ install.pc # "none" /\ install.worker \in {"create_dir_all", "write"}
    /\ install' = [install EXCEPT !.worker = "panicked"]
    /\ UNCHANGED <<filename, detected, fs0, builder, reader, evars, avars>>

\* what the JoinHandle yields once the task is over
InstallJoinResult ==
    IF install.worker = "cancelled" THEN "JoinError::Cancelled"
    ELSE IF install.worker = "panicked" THEN "JoinError::Panic"
    ELSE "Ok"

\* lines 61-71: the await is over and its value is matched
InstallJoin ==
    /\ install.pc = "awaiting"
    /\ install.worker \in {"done", "panicked", "cancelled"}
    /\ LET m == MatchResult(InstallJoinResult, install.worker_result) IN
         install' = [install EXCEPT !.pc = m.pc, !.outcome = m.outcome]
    /\ UNCHANGED <<filename, detected, fs0, builder, reader, evars, avars>>

NextInstall ==
    \/ LinkPackage \/ InstallSpawn \/ InstallWorkerStart \/ InstallShutdown
    \/ InstallCreateDir \/ InstallWrite \/ InstallWorkerPanic \/ InstallJoin

SpecInstall == InitInstall /\ [][NextInstall]_vars

-----------------------------------------------------------------------------
(* Claims                                                                  *)

\* the formats whose extension table holds a suffix of the lower-cased name
TableFormats(name) ==
    {f \in ArchiveFormat : \E e \in extensions(f) : ends_with(to_lowercase(name), e)}

-----------------------------------------------------------------------------
(* Claims about Extractor::extract (specification Spec)                    *)

\* the calls the reporter received with the given name
Signalled(name) == {i \in 1..Len(signals) : signals[i].sig = name}

\* the destination does not exist or is an empty directory
Fresh(f) == ~Exists(f, Dest) \/ (IsDir(f, Dest) /\ read_dir(f, Dest) = {})

\* a synchronous extract call has returned a value
Returned == call.op = "extract" /\ pc = "returned"

\* the top-level entries of the archive that was read
TopLevel == {e \in archive.entries : Len(e.path) = 1}

\* the archive's only top-level entry is a directory
SingleTopDir == Cardinality(TopLevel) = 1 /\ \A e \in TopLevel : e.kind = "dir"

\* the entries as the nodes they make when unpacked in place
AsNodes(es) == {[path |-> e.path, kind |-> e.kind, id |-> e.path] : e \in es}

\* the entries below the top level, one directory level removed
Stripped ==
    {[path |-> SubSeq(e.path, 2, Len(e.path)), kind |-> e.kind, id |-> e.path] :
        e \in {x \in archive.entries : Len(x.path) >= 2}}

\* C2: extract with no format override on an archive path whose filename
\* matches no known extension returns UnsupportedFormat, with the file
\* system as it was (no destination created) and no progress signal sent.
C2_UnsupportedFormatBeforeAnyEffect ==
    (/\ call.op = "extract"
     /\ extractor.format = None
     /\ detect_from_path(call.archive_path) = None
     /\ pc # "resolve")
    => /\ pc = "returned"
       /\ result = "UnsupportedFormat"
       /\ fs = fs0
       /\ signals = <<>>

\* C2 witness: such a call has returned UnsupportedFormat
C2_Witness ==
    /\ Returned
    /\ extractor.format = None
    /\ call.archive_path = "dl.zip/download"
    /\ result = "UnsupportedFormat"
    /\ ~Exists(fs, Dest)

\* C3 as stated: with stripping enabled, a fresh destination and an archive
\* whose only top-level entry is a directory D, a successful extract leaves
\* no entry named D in the destination.
C3_NoEntryNamedRoot ==
    (/\ Returned /\ result = "Ok" /\ Fresh(fs0) /\ SingleTopDir
     /\ extractor.strip_root_dir)
    => \A d \in TopLevel : ~Exists(fs, Dest \o d.path)

\* C3 amended: with a fresh destination and an archive whose only top-level
\* entry is a directory D, a successful extract with stripping enabled leaves
\* under the destination exactly what the archive holds below D, one level
\* up (D's children are the destination's children), and an entry named D is
\* there only when D itself holds a child named D; with stripping disabled
\* the destination holds the archive's tree as it is, D included.
C3_StripsExactlyOneLevel ==
    (Returned /\ result = "Ok" /\ Fresh(fs0) /\ SingleTopDir)
    => IF extractor.strip_root_dir
       THEN /\ Below(fs, Dest) = Stripped
            /\ \A d \in TopLevel :
                 Exists(fs, Dest \o d.path)
                    <=> (\E e \in archive.entries : e.path = d.path \o d.path)
       ELSE Below(fs, Dest) = AsNodes(archive.entries)

\* C3 witness: pkg/a.txt was extracted with stripping to dest/a.txt
C3_Witness ==
    /\ Returned /\ result = "Ok" /\ Fresh(fs0) /\ SingleTopDir
    /\ extractor.strip_root_dir
    /\ [path |-> <<"pkg", "a.txt">>, kind |-> "file"] \in archive.entries
    /\ [path |-> Dest \o <<"a.txt">>, kind |-> "file", id |-> <<"pkg", "a.txt">>] \in fs
    /\ ~Exists(fs, Dest \o <<"pkg">>)

\* C4: when the archive's top level is not exactly one directory, a
\* successful extract into a fresh destination leaves under the destination
\* the archive's tree, every entry at its own path and with its own content,
\* with stripping enabled and with stripping disabled alike.
C4_MultiEntryLayoutUnchanged ==
    (Returned /\ result = "Ok" /\ Fresh(fs0) /\ ~SingleTopDir)
    => Below(fs, Dest) = AsNodes(archive.entries)

\* C4 witness: two top-level entries, one a directory with a file inside,
\* were extracted with stripping enabled
C4_Witness ==
    /\ Returned /\ result = "Ok" /\ Fresh(fs0)
    /\ extractor.strip_root_dir
    /\ Cardinality(TopLevel) = 2
    /\ [path |-> Dest \o <<"pkg", "a.txt">>, kind |-> "file", id |-> <<"pkg", "a.txt">>] \in fs
    /\ [path |-> Dest \o <<"a.txt">>, kind |-> "file", id |-> <<"a.txt">>] \in fs

\* C5: with stripping enabled, when the unpack has left the scratch directory
\* with no entry, the next step of extract returns EmptyArchive, and on_finish
\* has not been and is not signalled.
C5_EmptyArchive ==
    [][(call.op = "extract" /\ pc = "move_first" /\ read_dir(fs, Scratch) = {})
        => /\ extractor.strip_root_dir
           /\ pc' = "returned"
           /\ result' = "EmptyArchive"
           /\ Signalled("on_finish")' = {}]_vars

\* C5 witness: an archive of zero entries made extract return EmptyArchive
C5_Witness ==
    /\ Returned
    /\ extractor.strip_root_dir
    /\ archive.read /\ archive.entries = {}
    /\ result = "EmptyArchive"
    /\ Signalled("on_finish") = {}

C7_OverrideBypassesDetection ==
    (call.op = "extract" /\ extractor.format # None)
    => /\ pc \notin {"idle", "resolve"} => format = extractor.format
       /\ result # "UnsupportedFormat"
       /\ compression # None => compression = Compression(extractor.format)
       /\ (archive.read /\ result = "Ok")
            => Compression(archive.encoding) = Compression(extractor.format)

\* C7 witness: a file named PKG.ZIP was unpacked as a gzip tarball, and a file
\* with no extension got past resolution, under an override
C7_Witness ==
    /\ Returned /\ result = "Ok"
    /\ extractor.format = "TarGz"
    /\ call.archive_path = "PKG.ZIP"
    /\ compression = "Gzip"
    /\ archive.entries # {}

-----------------------------------------------------------------------------
(* Claims about AsyncExtractor (specification SpecAsync)                   *)

\* C8: extract_from_url with no format override and a url whose path gives no
\* format returns FormatDetection with nothing offloaded: no worker was
\* spawned, the file system is as it was and no progress signal was sent.
C8_FormatDetectionBeforeOffload ==
    (/\ call.op = "extract_from_url"
     /\ extractor.format = None
     /\ detect_from_url(call.url) = None
     /\ caller # "from_url")
    => /\ caller = "returned"
       /\ outcome = "FormatDetection"
       /\ worker = "none" /\ pc = "idle"
       /\ fs = fs0
       /\ signals = <<>>

\* C8 witness: such a call has returned FormatDetection, on a url whose query
\* string alone ends in an archive extension
C8_Witness ==
    /\ call.op = "extract_from_url"
    /\ call.url = "https://example.com/download?file=a.zip"
    /\ extractor.format = None
    /\ caller = "returned"
    /\ outcome = "FormatDetection"

\* C9: extract_from_url with no format override unpacks the archive as the
\* format the url's path detects as, whatever the local archive_path is: once
\* the worker has resolved the format, it is the url's, and the call does not
\* end in UnsupportedFormat.
C9_UrlFormatIsUsed ==
    (/\ call.op = "extract_from_url"
     /\ extractor.format = None
     /\ detect_from_url(call.url) # None
     /\ alive /\ ~dangling
     /\ worker \in {"running", "joined"}
     /\ pc \notin {"idle", "resolve"})
    => /\ format = detect_from_url(call.url)
       /\ result # "UnsupportedFormat"

\* C10: when the worker panicked and the call was not cancelled, the caller
\* sees the panic re-raised, never an error value in its place.
C10_WorkerPanicIsReraised ==
    (caller = "returned" /\ worker = "joined" /\ pc = "panicked")
    => outcome = "Panic"

\* C11: when the await on the worker ends with a join failure that is no
\* panic (the task was cancelled), the call resolves to success: the caller
\* that was awaiting the cancelled task returns Ok.
C11_CancelledJoinIsSuccess ==
    [][(caller = "awaiting" /\ worker = "cancelled" /\ caller' = "returned")
        => outcome' = "Ok"]_vars

C13_AsyncExtractIsSyncExtract ==
    /\ (caller = "returned" /\ worker = "joined" /\ pc = "returned")
          => /\ [result |-> outcome, fs |-> fs]
                   \in ExtractOutcomes(extractor, call.archive_path, fs0, AsyncArchives)
             /\ alive /\ ~dangling
    /\ (worker \in {"queued", "running"} /\ caller # "dropped")
          => (caller = "awaiting" /\ outcome = Pending)

\* C13 witness: an awaited call returned the worker's TarExtraction, with the
\* part of the archive the worker had unpacked in the destination
C13_Witness ==
    /\ call.op = "async_extract"
    /\ caller = "returned" /\ worker = "joined" /\ pc = "returned"
    /\ ~extractor.strip_root_dir
    /\ outcome = "TarExtraction"
    /\ IsDir(fs, Dest \o <<"pkg">>) /\ ~Exists(fs, Dest \o <<"pkg", "a.txt">>)
    /\ [path |-> <<"pkg", "a.txt">>, kind |-> "file"] \in archive.entries

-----------------------------------------------------------------------------
(* Claims about the errors of Extractor::extract (specification Spec)      *)

\* C14: a rename that fails while move_extracted_dir moves the entries from
\* the scratch directory to the destination makes extract return
\* RootDirectoryStripping, no other error kind.
C14_RenameFailureIsRootDirectoryStripping ==
    [][(call.op = "extract" /\ pc = "move" /\ pc' = "returned")
        => result' = "RootDirectoryStripping"]_vars

\* C15: with stripping enabled, a failure to create the scratch directory
\* makes extract return TempDirCreation, no other error kind.
C15_TempDirFailureIsTempDirCreation ==
    [][(call.op = "extract" /\ pc = "tempdir" /\ pc' = "returned")
        => result' = "TempDirCreation"]_vars

\* C16: a failure of the unpack step is returned as the error kind of the
\* format family that was dispatched, TarExtraction for the six tar-family
\* formats and ZipExtraction for Zip, with stripping enabled or disabled;
\* it is never Io, and neither kind is returned under the other family.
C16_UnpackFailureKindFollowsFamily ==
    /\ [][(call.op = "extract" /\ pc = "unpack" /\ pc' = "returned")
            => result' = IF is_tar_based(format) THEN "TarExtraction"
                         ELSE "ZipExtraction"]_vars
    /\ [](result = "TarExtraction" => is_tar_based(format))
    /\ [](result = "ZipExtraction" => format = "Zip")

\* C16 witness: with stripping disabled, the unpack of a zip archive failed
\* part-way, pkg written and pkg/a.txt not, and extract returned ZipExtraction
C16_Witness ==
    /\ Returned /\ result = "ZipExtraction"
    /\ format = "Zip" /\ ~extractor.strip_root_dir
    /\ [path |-> <<"pkg", "a.txt">>, kind |-> "file"] \in archive.entries
    /\ IsDir(fs, Dest \o <<"pkg">>) /\ ~Exists(fs, Dest \o <<"pkg", "a.txt">>)

-----------------------------------------------------------------------------
(* Claims about the progress signals of Extractor::extract                 *)

\* the text holds the piece, letter case aside
Contains(text, piece) ==
    \E i \in 1..(Len(text) - Len(piece) + 1) :
        SubSeq(to_lowercase(text), i, i + Len(piece) - 1) = to_lowercase(piece)

\* the last call the reporter received
LastSignal == signals[Len(signals)]

\* C17 as stated: on every successful extract, on_finish is signalled with a
\* message naming the format that was extracted: the message holds the name
\* of the resolved ArchiveFormat.
C17_FinishMessageNamesFormat ==
    (Returned /\ result = "Ok")
    => /\ LastSignal.sig = "on_finish"
       /\ Contains(LastSignal.arg, ArchiveFormat_name(format))

\* C17 amended: on every successful extract, on_finish is signalled once, as
\* the last signal, with a message naming the container family that was
\* unpacked: "Extracted tar archive" for each of the six tar-family formats,
\* which therefore share one message, and "Extracted ZIP archive" for Zip;
\* the message holds the name of the resolved format for Tar and Zip alone.
C17_FinishMessageNamesFamily ==
    (Returned /\ result = "Ok")
    => /\ Cardinality(Signalled("on_finish")) = 1
       /\ LastSignal.sig = "on_finish"
       /\ LastSignal.arg = IF is_tar_based(format) THEN "Extracted tar archive"
                           ELSE "Extracted ZIP archive"
       /\ Contains(LastSignal.arg, ArchiveFormat_name(format)) <=> format \in {"Tar", "Zip"}

\* C17 witness: a TarZst archive was extracted and the call ended with the
\* message of the tar family
C17_Witness ==
    /\ Returned /\ result = "Ok"
    /\ format = "TarZst" /\ archive.encoding = "TarZst"
    /\ archive.entries # {}
    /\ LastSignal = [sig |-> "on_finish", arg |-> "Extracted tar archive"]

\* C18: during an extract call the reporter receives on_progress calls whose
\* values never decrease, and a call that succeeds has a last on_progress
\* call, the one carrying the number of bytes read from the archive file
\* (an extraction that succeeded has read the file, so there is such a call).
C18_ProgressIsReported ==
    /\ \A i \in Signalled("on_progress"), j \in Signalled("on_progress") :
          i <= j => signals[i].arg <= signals[j].arg
    /\ (Returned /\ result = "Ok") => Signalled("on_progress") # {}

-----------------------------------------------------------------------------
(* Claims about detect_from_url (specification SpecUrl)                    *)

\* the text after the last '/' of a path, the whole text when it has none
RECURSIVE AfterLastSlash(_)
AfterLastSlash(p) ==
    IF Len(p) = 0 \/ SubSeq(p, Len(p), Len(p)) = "/" THEN ""
    ELSE AfterLastSlash(SubSeq(p, 1, Len(p) - 1)) \o SubSeq(p, Len(p), Len(p))

\* a path without the slashes it ends with
RECURSIVE TrimSlashes(_)
TrimSlashes(p) ==
    IF Len(p) > 0 /\ SubSeq(p, Len(p), Len(p)) = "/"
    THEN TrimSlashes(SubSeq(p, 1, Len(p) - 1))
    ELSE p

\* the url up to its query and fragment
WithoutQueryAndFragment(url) == UpTo(url, {"?", "#"})

\* C19 as stated: detect_from_url(u) is detect_from_filename applied to the
\* last segment of u's path, and the query and the fragment do not count.
C19_UrlDetectionUsesLastSegment ==
    detected # Unset =>
        /\ detected = detect_from_filename(AfterLastSlash(url_path(filename)))
        /\ \A q \in UrlQueries, g \in UrlFragments :
              detect_from_url(WithoutQueryAndFragment(filename) \o q \o g) = detected

\* C19 amended: detect_from_url(u) is detect_from_filename applied to the
\* last segment of u's path that is not empty, the slashes the path ends
\* with being ignored (https://host/file.zip/ detects as Zip), and none when
\* the path has no such segment; the query and the fragment do not count.
C19_UrlDetectionUsesLastNamedSegment ==
    detected # Unset =>
        /\ detected =
              detect_from_filename(AfterLastSlash(TrimSlashes(url_path(filename))))
        /\ TrimSlashes(url_path(filename)) = "" => detected = None
        /\ \A q \in UrlQueries, g \in UrlFragments :
              detect_from_url(WithoutQueryAndFragment(filename) \o q \o g) = detected

\* C19 witness: a url whose path is /file.zip, with a query and a fragment
\* that end in other extensions, was detected as Zip
C19_Witness ==
    /\ filename = "https://example.com/file.zip?file=a.zip#/b.tar.xz"
    /\ detected = "Zip"

-----------------------------------------------------------------------------
(* Claims about the extension table (specification SpecFormat)             *)

\* the suffix tests of detect_from_filename run on the lower-cased name f in
\* the opposite order, Zip first and TarGz last
DetectInReverseOrder(f) ==
    IF ends_with(f, ".zip") THEN "Zip"
    ELSE IF ends_with(f, ".tar") THEN "Tar"
    ELSE IF ends_with(f, ".tar.zst") \/ ends_with(f, ".tzst") THEN "TarZst"
    ELSE IF ends_with(f, ".tar.lzma") \/ ends_with(f, ".tlz") THEN "TarLzma"
    ELSE IF ends_with(f, ".tar.xz") \/ ends_with(f, ".txz") THEN "TarXz"
    ELSE IF \/ ends_with(f, ".tar.bz2") \/ ends_with(f, ".tbz")
            \/ ends_with(f, ".tbz2") \/ ends_with(f, ".tz2")
    THEN "TarBz2"
    ELSE IF ends_with(f, ".tar.gz") \/ ends_with(f, ".tgz") \/ ends_with(f, ".taz")
    THEN "TarGz"
    ELSE None

-----------------------------------------------------------------------------
(* Claims about is_archive and is_tarball (specification SpecLib)          *)

\* C21: is_archive(f) is true exactly when detect_from_filename(f) returns a
\* format, and is_tarball(f) is true exactly when it returns a format whose
\* is_tar_based() is true.
C21_PredicatesFollowDetection ==
    /\ detected.fn = "is_archive"
          => (detected.value <=> detect_from_filename(filename) \in ArchiveFormat)
    /\ detected.fn = "is_tarball"
          => (detected.value <=> /\ detect_from_filename(filename) \in ArchiveFormat
                                 /\ is_tar_based(detect_from_filename(filename)))

\* C21 witness: is_tarball was true of a name ending in .TLZ, a TarLzma
C21_Witness ==
    /\ filename = "F.TLZ"
    /\ detected = [fn |-> "is_tarball", value |-> TRUE]

-----------------------------------------------------------------------------
(* Claims about the builders (specification SpecBuilder)                   *)

\* the three fields of a builder or an Extractor but the named one
OtherFields(b, field) ==
    [f \in {"strip_root_dir", "progress_reporter", "format"} \ {field} |-> b[f]]

\* C22: a new builder has strip_root_dir = true, no format override and the
\* no-op reporter; each with_ step sets its own field to its argument and
\* leaves the two others as they were, whatever was called before; build()
\* yields an Extractor with the builder's three values; the async builder
\* holds, and builds, the same configuration as the builder given the same
\* calls.
C22_BuilderStepsChangeOwnField ==
    /\ [](builder.last = "new" =>
            builder.sync = [strip_root_dir |-> TRUE,
                            progress_reporter |-> "NoProgressReporter",
                            format |-> None])
    /\ [][\A field \in {"strip_root_dir", "progress_reporter", "format"} :
            builder'.last = "with_" \o field
               => /\ builder'.sync[field] = builder'.arg
                  /\ OtherFields(builder'.sync, field) = OtherFields(builder.sync, field)]_vars
    /\ [][builder'.last = "build"
            => /\ \A field \in {"strip_root_dir", "progress_reporter", "format"} :
                     extractor'.sync[field] = builder.sync[field]
               /\ extractor'.async.inner = extractor'.sync]_vars
    /\ [](builder.last # "none" => builder.async.inner = builder.sync)

\* C22 witness: a format, then a reporter, then the flag were set, and the
\* built Extractor and AsyncExtractor hold all three
C22_Witness ==
    /\ extractor.last = "build"
    /\ extractor.sync = [strip_root_dir |-> FALSE, progress_reporter |-> "ReporterB",
                         format |-> "TarXz"]
    /\ extractor.async = [inner |-> extractor.sync]

-----------------------------------------------------------------------------
(* Claims about the order of the steps of extract (specification Spec)     *)

\* the place of a step in extract: resolve, create the destination, on_start,
\* open and unpack, normalize, on_finish, return
StepRank(p) ==
    CASE p = "idle"        -> 0
      [] p = "resolve"     -> 1
      [] p = "create_dest" -> 2
      [] p = "on_start"    -> 3
      [] p = "open"        -> 4
      [] p = "tempdir"     -> 5
      [] p = "unpack"      -> 6
      [] p = "move_first"  -> 7
      [] p = "move"        -> 8
      [] p = "on_finish"   -> 9
      [] p = "returned"    -> 10
      [] p = "panicked"    -> 10

\* the names of the signals the reporter received, in order
SignalNames == [i \in 1..Len(signals) |-> signals[i].sig]

\* C23: within one extract call the steps run one at a time in the order
\* resolve, create destination, on_start, unpack, normalize, on_finish; the
\* reporter sees on_start once, when the format is resolved and the
\* destination exists and nothing of the archive has been read, in every call
\* that gets that far and in no call that fails earlier; on_finish is
\* signaled at most once, after on_start, when the archive was unpacked and,
\* with stripping, every entry was moved out of the scratch tree, and only by
\* a call that returns Ok: a call that returns an error has signaled no
\* on_finish.
C23_SignalsFollowStepOrder ==
    /\ [][pc' # pc => StepRank(pc') > StepRank(pc)]_vars
    /\ [](StepRank(pc) <= 3 => signals = <<>>)
    /\ [](StepRank(pc) \in 4..9 => SignalNames = <<"on_start">>)
    /\ [][(StepRank(pc) \in 4..9 /\ pc' = "returned")
            => Cardinality(Signalled("on_start")') = 1]_vars
    /\ [][SignalNames' # SignalNames /\ SignalNames'[Len(signals')] = "on_start"
            => /\ pc = "on_start" /\ pc' = "open"
               /\ format # None
               /\ IsDir(fs, Dest)
               /\ ~archive.read]_vars
    /\ [][SignalNames' # SignalNames /\ SignalNames'[Len(signals')] = "on_finish"
            => /\ pc = "on_finish" /\ pc' = "returned" /\ result' = "Ok"
               /\ SignalNames = <<"on_start">>
               /\ archive.read
               /\ temp_dir => (src_dir # <<>> /\ read_dir(fs, src_dir) = {})]_vars
    /\ [](pc = "returned" /\ result # "Ok" => Signalled("on_finish") = {})
    /\ [](pc = "returned" /\ result = "Ok" => SignalNames = <<"on_start", "on_finish">>)

\* C23 witness: a call that stripped a root directory has returned Ok and the
\* reporter saw on_start, then on_finish
C23_Witness ==
    /\ Returned /\ result = "Ok"
    /\ extractor.strip_root_dir
    /\ SingleTopDir /\ Stripped # {}
    /\ SignalNames = <<"on_start", "on_finish">>

-----------------------------------------------------------------------------
(* Claims about the closure's handle on the Extractor (SpecAsync)          *)

\* C24: in every interleaving of the caller and the worker of
\* AsyncExtractor::extract, the caller's future being dropped and the
\* AsyncExtractor released while the worker runs included, the worker never
\* reads the Extractor's configuration (format, strip flag, reporter) after
\* its owner released it.
C24_WorkerNeverReadsReleasedExtractor == ~dangling

-----------------------------------------------------------------------------
(* Claims about failures inside the steps (specification Spec)             *)

\* the unpacked entries still waiting in the scratch tree below src_dir
Unmoved(f) == {n \in f : IsPrefix(src_dir, n.path) /\ n.path # src_dir}

\* C25: when a rename fails during root normalization the remaining moves
\* are aborted and nothing is rolled back: what the destination held before
\* the failing rename, every entry moved so far included, it holds after the
\* call returned; no entry that was still to be moved is anywhere in the
\* file system; the call returns an error and on_finish is not signaled.
\* Every rename that succeeds before adds its entry to the destination and
\* removes none.
C25_RenameFailureAbortsWithoutRollback ==
    /\ [][(call.op = "extract" /\ pc = "move" /\ pc' = "returned")
            => /\ result' \notin {"Ok", Pending}
               /\ Below(fs', Dest) = Below(fs, Dest)
               /\ Unmoved(fs) # {}
               /\ \A n \in Unmoved(fs) : \A m \in fs' : m.id # n.id
               /\ signals' = signals
               /\ Signalled("on_finish") = {}]_vars
    /\ [][(call.op = "extract" /\ pc = "move" /\ pc' = "move")
            => /\ Below(fs, Dest) \subseteq Below(fs', Dest)
               /\ \E entry \in read_dir(fs, src_dir) :
                    /\ \E m \in read_dir(fs', Dest) :
                          m.id = entry.id /\ m \notin read_dir(fs, Dest)
                    /\ read_dir(fs', src_dir) = read_dir(fs, src_dir) \ {entry}]_vars

\* C25 witness: of the two top-level entries of the archive, a.txt was moved
\* to the destination, the rename of pkg failed, and the call returned the
\* error with a.txt in the destination next to what was there before
C25_Witness ==
    /\ Returned /\ result = "Io"
    /\ extractor.strip_root_dir
    /\ {e.path : e \in TopLevel} = {<<"a.txt">>, <<"pkg">>}
    /\ \E n \in read_dir(fs, Dest) : n.id = <<"a.txt">>
    /\ \A n \in fs : n.id # <<"pkg">>
    /\ Exists(fs, Dest \o <<"old.txt">>)
    /\ Signalled("on_finish") = {}

-----------------------------------------------------------------------------
(* Claims about the scratch directory (specification SpecReuse)            *)

\* C26: the scratch directory an extract call created is gone when the call
\* returns, on success and on every error path: a step that returns while
\* the scratch directory is held removes it and all below it; the scratch
\* directory exists only inside the unpack and normalize steps of a call;
\* the Extractor is the same value before, during and after every call and
\* holds no scratch directory between calls, so that a further call on it
\* starts as the first one did.
C26_ScratchRemovedOnReturn ==
    /\ [](pc \in {"idle", "resolve", "returned"}
            => /\ ~temp_dir
               /\ \A n \in fs : ~IsPrefix(Scratch, n.path))
    /\ [][(temp_dir /\ pc' = "returned")
            => /\ Exists(fs, Scratch) /\ ~Exists(fs', Scratch)
               /\ Below(fs', Scratch) = {}]_vars
    /\ []((\E n \in fs : IsPrefix(Scratch, n.path))
            => temp_dir /\ pc \in {"unpack", "move_first", "move", "on_finish"})
    /\ [](extractor \in Extractors)
    /\ [][extractor' = extractor]_vars
    /\ [][pc' = "resolve"
            => /\ archive' = NoArchive /\ format' = None /\ src_dir' = <<>>
               /\ result' = Pending /\ signals' = <<>>]_vars

\* C26 witness: a call that had made a scratch directory returned and left
\* no scratch directory, the Extractor was used again, and the later call
\* stripped the root directory and returned Ok with no scratch directory left
C26_Witness ==
    /\ Returned /\ result = "Ok"
    /\ IsDir(fs0, TempRoot) /\ ~Exists(fs0, Scratch)
    /\ extractor.strip_root_dir
    /\ SingleTopDir /\ Stripped # {}
    /\ ~Exists(fs, Scratch)
    /\ \E n \in read_dir(fs, Dest) : n.id # <<>>

-----------------------------------------------------------------------------
(* Claims about ProgressReader (specification SpecReader)                  *)

\* the sum of the byte counts the successful reads among the first i calls
\* returned
RECURSIVE ReadTotal(_, _)
ReadTotal(r, i) ==
    IF i = 0 THEN 0
    ELSE ReadTotal(r, i - 1) + (IF r.ret[i].op = "read" /\ r.ret[i].ok THEN r.ret[i].n ELSE 0)

\* the last call on the reader was a read that succeeded
ReadOk(r) == r.last = "read" /\ r.ret[Len(r.ret)].ok

\* C27: after any sequence of calls on a ProgressReader, bytes_read is the
\* sum of the byte counts its successful reads returned; a successful read,
\* one of zero bytes included, makes exactly one on_progress call, with the
\* new running total, so that the reported values never decrease; a failed
\* read and a seek, failed or not, leave bytes_read as it was and make no
\* on_progress call.
C27_ProgressReaderCountsReads ==
    /\ [](reader.self.bytes_read = ReadTotal(reader, Len(reader.ret)))
    /\ [][ReadOk(reader')
            => /\ reader'.self.bytes_read
                    = reader.self.bytes_read + reader'.ret[Len(reader'.ret)].n
               /\ reader'.on_progress
                    = Append(reader.on_progress, reader'.self.bytes_read)]_vars
    /\ [][~ReadOk(reader')
            => /\ reader'.self.bytes_read = reader.self.bytes_read
               /\ reader'.on_progress = reader.on_progress]_vars
    /\ [](\A i \in 1..Len(reader.on_progress), j \in 1..Len(reader.on_progress) :
               i <= j => reader.on_progress[i] <= reader.on_progress[j])

\* C27 witness: reads of 2, 0 and, after a seek back to the start, 2 bytes
\* were reported as 2, 2 and 4, more than the source holds, and a read that
\* failed after them reported nothing
C27_Witness ==
    /\ reader.last = "read" /\ ~reader.ret[Len(reader.ret)].ok
    /\ reader.on_progress = <<2, 2, 4>>
    /\ reader.self.bytes_read = 4
    /\ \E i \in 1..Len(reader.ret) : reader.ret[i].op = "seek" /\ reader.ret[i].ok

-----------------------------------------------------------------------------
(* Claims about what a failed or empty unpack leaves (specification Spec)  *)

\* C28: with stripping enabled, a call that fails with TarExtraction or
\* ZipExtraction leaves the destination directory holding what it held
\* before the unpack started, and before the call, and nothing else of the
\* file system changed: what was unpacked went to the scratch directory and
\* is gone with it.  With stripping disabled the failing unpack removes
\* nothing, and the entries it wrote before it failed, a part of the
\* archive's entries closed under parents, are in the destination when the
\* call returns.
C28_UnpackFailureLeavesDestination ==
    /\ [][(call.op = "extract" /\ pc \in {"open", "unpack"} /\ pc' = "returned"
           /\ result' \in {"TarExtraction", "ZipExtraction"}
           /\ extractor.strip_root_dir)
            => /\ Below(fs', Dest) = Below(fs, Dest)
               /\ Below(fs', Dest) = Below(fs0, Dest)
               /\ fs' = remove_dir_all(fs, Scratch)]_vars
    /\ [][(call.op = "extract" /\ pc = "unpack" /\ pc' = "returned"
           /\ ~extractor.strip_root_dir)
            => /\ result' \in {"TarExtraction", "ZipExtraction"}
               /\ fs \subseteq fs'
               /\ \E w \in Partials(archive'.entries) : fs' \ fs = Unpacked(w, Dest) \ fs]_vars
    /\ [](Returned /\ result \in {"TarExtraction", "ZipExtraction"}
            => IF extractor.strip_root_dir
               THEN Below(fs, Dest) = Below(fs0, Dest)
               ELSE Below(fs0, Dest) \subseteq Below(fs, Dest))

\* C28 witness: with stripping enabled the unpack of an archive of two
\* entries failed, and the destination holds the one file it held before
C28_Witness ==
    /\ Returned /\ result = "TarExtraction"
    /\ extractor.strip_root_dir
    /\ {e.path : e \in archive.entries} = {<<"pkg">>, <<"pkg", "a.txt">>}
    /\ {n.path : n \in read_dir(fs, Dest)} = {Dest \o <<"old.txt">>}
    /\ Below(fs, Dest) = Below(fs0, Dest)
    /\ ~Exists(fs, Scratch)

\* the archive that was read holds one empty top-level directory, no more
OnlyEmptyRoot == archive.read /\ SingleTopDir /\ Cardinality(archive.entries) = 1

\* C29: EmptyArchive is returned only by the listing of a scratch directory
\* with zero immediate entries.  With stripping enabled, an unpacked archive
\* whose only top-level entry is an empty directory passes the listing, has
\* nothing to move, and the call signals on_finish and returns Ok with the
\* destination holding what it held before; such a call returns no error
\* but that of a failed unpack.  With stripping disabled no call returns
\* EmptyArchive, and a call on an archive of zero entries returns Ok or the
\* error of a failed unpack.
C29_EmptyArchiveOnlyForEmptyScratch ==
    /\ [][result' = "EmptyArchive" /\ result # "EmptyArchive"
            => /\ pc = "move_first" /\ temp_dir
               /\ read_dir(fs, Scratch) = {}]_vars
    /\ [][(call.op = "extract" /\ pc = "move_first" /\ OnlyEmptyRoot)
            => /\ pc' = "move" /\ fs' = fs
               /\ read_dir(fs, src_dir') = {}]_vars
    /\ [][(call.op = "extract" /\ pc = "move" /\ OnlyEmptyRoot)
            => pc' = "on_finish" /\ fs' = fs]_vars
    /\ [](Returned /\ extractor.strip_root_dir /\ OnlyEmptyRoot
            => /\ result \in {"Ok", "TarExtraction", "ZipExtraction"}
               /\ result = "Ok" => /\ Below(fs, Dest) = Below(fs0, Dest)
                                   /\ SignalNames = <<"on_start", "on_finish">>)
    /\ [](Returned /\ ~extractor.strip_root_dir
            => /\ result # "EmptyArchive"
               /\ (archive.read /\ archive.entries = {})
                     => result \in {"Ok", "TarExtraction", "ZipExtraction"})

\* C29 witness: with stripping enabled, an archive holding the empty
\* directory pkg alone was extracted with success, on_finish was signaled
\* and the destination holds what it held before
C29_Witness ==
    /\ Returned /\ result = "Ok"
    /\ extractor.strip_root_dir
    /\ archive.entries = {[path |-> <<"pkg">>, kind |-> "dir"]}
    /\ {n.path : n \in read_dir(fs, Dest)} = {Dest \o <<"old.txt">>}
    /\ Below(fs, Dest) = Below(fs0, Dest)
    /\ SignalNames = <<"on_start", "on_finish">>

-----------------------------------------------------------------------------
(* Claims about install_package_to_environment (specification SpecInstall) *)

\* C30: install_package_to_environment starts the blocking conda-meta write
\* only after link_package succeeded: a link failure returns the error with
\* no worker started and the conda-meta directory and records as they were.
\* When the await is over, a worker that completed gives the call the
\* worker's own result, Ok or its error; a worker that panicked gives the
\* caller the panic; a join failure that is no panic gives Ok(()).
C30_InstallMapsWorkerOutcome ==
    /\ [](install.worker # "none" => install.linked)
    /\ [][(install.worker = "none" /\ install'.worker # "none")
            => install.linked /\ install.pc = "spawn"]_vars
    /\ [](~install.linked => install.prefix = install.prefix0)
    /\ [][(install.pc = "link" /\ ~install'.linked)
            => /\ install'.pc = "returned" /\ install'.outcome = "LinkError"
               /\ install'.worker = "none"
               /\ install'.prefix = install.prefix0]_vars
    /\ [](install.outcome = "LinkError"
            => install.worker = "none" /\ install.prefix = install.prefix0)
    /\ [][(install.pc = "awaiting" /\ install'.pc # "awaiting")
            => /\ install.worker = "done"
                    => /\ install'.pc = "returned"
                       /\ install'.outcome = install.worker_result
                       /\ install'.outcome \in {"Ok", "Io"}
               /\ install.worker = "panicked"
                    => install'.pc = "panicked" /\ install'.outcome = Pending
               /\ install.worker = "cancelled"
                    => install'.pc = "returned" /\ install'.outcome = "Ok"
               /\ install.worker \in {"done", "panicked", "cancelled"}]_vars

\* C30 witness: the packages were linked, the write was cancelled before it
\* started, and the call returned Ok(()) with no conda-meta directory made
C30_Witness ==
    /\ install.pc = "returned" /\ install.outcome = "Ok"
    /\ install.linked /\ install.paths = {"bin/foo", "lib/libfoo.so"}
    /\ install.worker = "cancelled"
    /\ install.prefix.conda_meta = "absent"
    /\ install.prefix = install.prefix0

====
